---- MODULE Spec2Model ----
(***************************************************************************)
(* Seat-reservation and payment-orchestration engine of the ticket-booking *)
(* backend (hackload-kz/rorobotics).                                       *)
(*                                                                         *)
(* The durable store (PostgreSQL) is modelled as three tables: seats,      *)
(* bookings and payment_transactions.  The ephemeral key store (Redis) is  *)
(* a map from keys to values.  HTTP handlers run on a pool of workers;     *)
(* every handler is cut at its suspension points (one action per DS        *)
(* statement or transaction, one per EKS command).  A DS transaction is    *)
(* one atomic action placed at its commit.  The migrations that create the *)
(* tables are not among the sources: no foreign key and no CHECK           *)
(* constraint is assumed, so the statements do what their SQL says.        *)
(***************************************************************************)
EXTENDS Integers, FiniteSets, Sequences, TLC

\* ---------------------------------------------------------------- bounds
MaxBookings == 2        \* bookings_id_seq never goes beyond this value
MaxPayments == 2        \* the gateway hands out at most this many payment ids
MaxRequests == 3        \* requests accepted by the worker pool in one run
MaxThreshold == 2       \* largest configured failure_threshold of a breaker
MaxTimeout == 1         \* largest configured timeout_seconds of a breaker
MaxClock == 2           \* seconds of wall-clock time that pass in one run
MaxCalls == 4           \* gateway calls made through the shared breaker
MaxOutageRequests == 6  \* initiate_payment requests of the outage scenario

\* ------------------------------------------------------- small input sets
Users    == {1, 2, 3}   \* users.user_id
SeatIds  == {1, 2}      \* seats.id (provisioned, never destroyed)
Workers  == {1, 2, 3}   \* request slots of the HTTP worker pool
HttpWorkers == {1, 2}   \* slots used by the general specification
HttpUsers   == {1, 2}   \* users issuing requests in the general specification
NULL     == 0           \* SQL NULL in seats.booking_id

BookingIds == 1..MaxBookings
PaymentIds == 1..MaxPayments

SeatStatuses == {"FREE", "RESERVED", "SOLD"}

\* the statuses delivered to the webhook: one of each arm of the dispatch
WebhookStatuses == {"CONFIRMED", "AUTHORIZED", "FAILED", "NEW"}

VARIABLES
  seats,          \* table seats: id -> [status, booking_id]
  bookings,       \* table bookings: id -> [user_id, status] (rows can be deleted)
  nextBookingId,  \* bookings_id_seq
  payments,       \* table payment_transactions keyed by transaction_id
  nextPaymentId,  \* next payment id the gateway will assign
  eks,            \* Redis: key -> value
  req,            \* per worker: the request in flight and its position
  reaper,         \* the background task of main(): position and snapshot
  nreq,           \* number of requests the worker pool has accepted
  cb,             \* the CircuitBreaker objects: id -> fields
  call,           \* per caller of execute_with_circuit_breaker: its position
  obs             \* the observer: wall clock and the history of recorded results

dsvars == <<seats, bookings, nextBookingId, payments, nextPaymentId, eks, req, reaper, nreq>>
cbvars == <<cb, call, obs>>
vars == <<dsvars, cbvars>>

\* ------------------------------------------------------------- EKS keys
\* format!("seat:{}:reserved", seat_id)
ReservedKey(s) == <<"seat", s, ":reserved">>
\* format!("seat:{}", id)
PlainKey(s) == <<"seat", s, "">>

\* format!("seats:{}", event_id); all seats of the model belong to one event
SeatsKey == <<"seats", 1, "">>

\* DEL key [key ...]
Del(store, keys) == [k \in (DOMAIN store) \ keys |-> store[k]]

\* SET key value (used by SET NX once the key is known to be absent)
SetKey(store, k, v) == [x \in (DOMAIN store) \cup {k} |-> IF x = k THEN v ELSE store[x]]

\* ------------------------------------------------------------- requests
Idle == [op |-> "idle", pc |-> "", user |-> 0, booking |-> 0, seat |-> 0,
         pid |-> 0, status |-> "", ret |-> {}, result |-> "", data |-> {}, after |-> {}]

\* the handler has produced its response
Done(r, code) ==
  [Idle EXCEPT !.op = r.op, !.pc = "done", !.seat = r.seat, !.result = code]

\* a request is accepted by the first free worker (workers are interchangeable)
Accepts(w) ==
  /\ \A v \in Workers : v < w => req[v] # Idle
  /\ nreq < MaxRequests
  /\ nreq' = nreq + 1

\* no gateway client is in use
NoBreaker == cb = <<>> /\ call = <<>> /\ obs = <<>>

Init ==
  /\ seats = [s \in SeatIds |-> [status |-> "FREE", booking_id |-> NULL]]
  /\ bookings = <<>>
  /\ nextBookingId = 1
  /\ payments = <<>>
  /\ nextPaymentId = 1
  /\ eks = <<>>
  /\ req = [w \in Workers |-> Idle]
  /\ reaper = [pc |-> "sleep", queue |-> {}, ret |-> {}]
  /\ nreq = 0
  /\ NoBreaker

\* ---------------------------------------------------- SQL statements (pure)
\* the same query without the condition on user_id
booking_belongs_to_user_any_user(bk, b, u) == b \in DOMAIN bk

\* SELECT EXISTS(SELECT 1 FROM bookings WHERE id = $1 AND user_id = $2)
booking_belongs_to_user(bk, b, u) == b \in DOMAIN bk /\ bk[b].user_id = u

\* ... WHERE booking_id = $1 AND status = 'RESERVED' RETURNING id
ReservedSeatsOf(st, b) ==
  {s \in SeatIds : st[s].booking_id = b /\ st[s].status = "RESERVED"}

\* the same update with the status condition left out
FreeSeatsOf_any_status(st, b, to) ==
  [s \in SeatIds |-> IF st[s].booking_id = b
                     THEN [status |-> to, booking_id |-> NULL] ELSE st[s]]

\* UPDATE seats SET status = <to>, booking_id = NULL
\*   WHERE booking_id = $1 AND status = 'RESERVED'
FreeSeatsOf(st, b, to) ==
  [s \in SeatIds |-> IF s \in ReservedSeatsOf(st, b)
                     THEN [status |-> to, booking_id |-> NULL] ELSE st[s]]

\* the SOLD update written after the pattern of the freeing update, which
\* also clears booking_id
SellSeatsOf_clears_booking(st, b) ==
  [s \in SeatIds |-> IF s \in ReservedSeatsOf(st, b)
                     THEN [status |-> "SOLD", booking_id |-> NULL] ELSE st[s]]

\* UPDATE seats SET status = 'SOLD' WHERE booking_id = $1 AND status = 'RESERVED'
SellSeatsOf(st, b) ==
  [s \in SeatIds |-> IF s \in ReservedSeatsOf(st, b)
                     THEN [st[s] EXCEPT !.status = "SOLD"] ELSE st[s]]

\* UPDATE bookings SET status = <to> WHERE id = $1
SetBookingStatus(bk, b, to) ==
  [x \in DOMAIN bk |-> IF x = b THEN [bk[x] EXCEPT !.status = to] ELSE bk[x]]

\* DELETE FROM bookings WHERE id = $1
DeleteBooking(bk, b) == [x \in (DOMAIN bk) \ {b} |-> bk[x]]

\* UPDATE payment_transactions SET status = <to> WHERE transaction_id = $1
SetPaymentStatus(pt, pid, to) ==
  [p \in DOMAIN pt |-> IF p = pid THEN [pt[p] EXCEPT !.status = to] ELSE pt[p]]

\* ------------------------------------- lifecycle transactions (pure, on a db)
Db(st, bk, pt) == [seats |-> st, bookings |-> bk, payments |-> pt]

\* process_successful_payment with the seat update moved first and guarded
\* by the booking being paid already
process_successful_payment_stale_guard(db, pid, b) ==
  Db(IF b \in DOMAIN db.bookings /\ db.bookings[b].status = "paid"
     THEN SellSeatsOf(db.seats, b) ELSE db.seats,
     SetBookingStatus(db.bookings, b, "paid"),
     SetPaymentStatus(db.payments, pid, "completed"))

\* UPDATE payment_transactions ... 'completed'; UPDATE bookings ... 'paid';
\* UPDATE seats ... 'SOLD' ... RETURNING id; COMMIT
process_successful_payment(db, pid, b) ==
  Db(SellSeatsOf(db.seats, b),
     SetBookingStatus(db.bookings, b, "paid"),
     SetPaymentStatus(db.payments, pid, "completed"))

\* What the deletion of booking row b does to the seats that still carry its
\* id.  The schema (the migrations) is not among the sources; the data model
\* describes the relation as weak (seats carry booking_id, no constraint is
\* stated), so the seat rows stay as they are.
SeatsAfterBookingDelete(st, b) == st

\* Likewise for the payment rows of booking b: payment_transactions carries
\* booking_id with no constraint stated, so the rows stay.
PaymentsAfterBookingDelete(pt, b) == pt

\* UPDATE payment_transactions ... 'failed'; UPDATE seats ... 'AVAILABLE' ...;
\* DELETE FROM bookings WHERE id = $1; COMMIT
process_failed_payment(db, pid, b) ==
  Db(SeatsAfterBookingDelete(FreeSeatsOf(db.seats, b, "AVAILABLE"), b),
     DeleteBooking(db.bookings, b),
     PaymentsAfterBookingDelete(SetPaymentStatus(db.payments, pid, "failed"), b))

\* UPDATE payment_transactions ... 'expired'; UPDATE seats ... 'AVAILABLE' ...;
\* DELETE FROM bookings WHERE id = $1; COMMIT
cleanup_expired_payment(db, pid, b) ==
  Db(SeatsAfterBookingDelete(FreeSeatsOf(db.seats, b, "AVAILABLE"), b),
     DeleteBooking(db.bookings, b),
     PaymentsAfterBookingDelete(SetPaymentStatus(db.payments, pid, "expired"), b))

\* keys deleted by the post-commit cleanup: format!("seat:{}", id)
clear_redis_reservations(store, ids) == Del(store, {PlainKey(s) : s \in ids})

\* SELECT b.id, b.event_id FROM bookings b JOIN payment_transactions pt
\*   ON pt.booking_id = b.id WHERE pt.transaction_id = $1
WebhookLookup(db, pid) ==
  IF pid \in DOMAIN db.payments /\ db.payments[pid].booking_id \in DOMAIN db.bookings
  THEN db.payments[pid].booking_id ELSE NULL

CurDb == Db(seats, bookings, payments)

\* --------------------------------------------------------------- handlers
\* POST /api/bookings: one INSERT ... RETURNING id
create_booking(u) ==
  /\ nextBookingId <= MaxBookings
  /\ bookings' = [x \in (DOMAIN bookings) \cup {nextBookingId} |->
                    IF x = nextBookingId
                    THEN [user_id |-> u, status |-> "created"] ELSE bookings[x]]
  /\ nextBookingId' = nextBookingId + 1
  /\ UNCHANGED <<seats, payments, nextPaymentId, eks, req, reaper, nreq, cbvars>>

\* CacheService::invalidate_seats: DEL seats:{event_id}
invalidate_seats(store) == Del(store, {SeatsKey})

\* PATCH /api/seats/select, step 1: ownership check of the booking
select_seat_check(w, u, b, s) ==
  /\ req[w] = Idle
  /\ LET r == [Idle EXCEPT !.op = "select_seat", !.user = u, !.booking = b, !.seat = s]
     IN  req' = [req EXCEPT ![w] =
                   IF booking_belongs_to_user(bookings, b, u)
                   THEN [r EXCEPT !.pc = "reserve"] ELSE Done(r, "419")]
  /\ UNCHANGED <<seats, bookings, nextBookingId, payments, nextPaymentId, eks, reaper, cbvars>>

\* reserve_seat with the NX option forgotten: SET always succeeds
reserve_seat_without_nx(store, s, u) ==
  [store |-> SetKey(store, ReservedKey(s), u), ok |-> TRUE]

\* CacheService::reserve_seat: SET key user NX EX 300; is_ok() of the reply
reserve_seat(store, s, u) ==
  IF ReservedKey(s) \in DOMAIN store
  THEN [store |-> store, ok |-> FALSE]
  ELSE [store |-> SetKey(store, ReservedKey(s), u), ok |-> TRUE]

\* step 2: the EKS gate
select_seat_reserve(w) ==
  /\ req[w].op = "select_seat" /\ req[w].pc = "reserve"
  /\ LET reserved == reserve_seat(eks, req[w].seat, req[w].user)
     IN  /\ eks' = reserved.store
         /\ req' = [req EXCEPT ![w] =
                      IF reserved.ok THEN [req[w] EXCEPT !.pc = "update"]
                      ELSE Done(req[w], "419")]
  /\ UNCHANGED <<seats, bookings, nextBookingId, payments, nextPaymentId, reaper, nreq, cbvars>>

\* UPDATE seats SET status='RESERVED', booking_id=$1 WHERE id=$2 AND status='FREE'
SelectSeatUpdate(st, s, b) ==
  IF st[s].status = "FREE"
  THEN [st EXCEPT ![s] = [status |-> "RESERVED", booking_id |-> b]] ELSE st

\* step 3: the DS conditional update
select_seat_update(w) ==
  /\ req[w].op = "select_seat" /\ req[w].pc = "update"
  /\ seats' = SelectSeatUpdate(seats, req[w].seat, req[w].booking)
  /\ req' = [req EXCEPT ![w].pc = IF seats' # seats THEN "invalidate" ELSE "rollback"]
  /\ UNCHANGED <<bookings, nextBookingId, payments, nextPaymentId, eks, reaper, nreq, cbvars>>

\* step 4 (rows_affected > 0): seat_event_id + invalidate_seats, then 200
select_seat_invalidate(w) ==
  /\ req[w].op = "select_seat" /\ req[w].pc = "invalidate"
  /\ eks' = invalidate_seats(eks)
  /\ req' = [req EXCEPT ![w] = Done(req[w], "200")]
  /\ UNCHANGED <<seats, bookings, nextBookingId, payments, nextPaymentId, reaper, nreq, cbvars>>

\* the unwinding without its DEL
select_seat_rollback_keeps_lock(w) ==
  /\ req[w].op = "select_seat" /\ req[w].pc = "rollback"
  /\ req' = [req EXCEPT ![w] = Done(req[w], "419")]
  /\ UNCHANGED <<seats, bookings, nextBookingId, payments, nextPaymentId, eks, reaper, nreq, cbvars>>

\* step 4 (rows_affected = 0): DEL seat:{id}:reserved, then 419
select_seat_rollback(w) ==
  /\ req[w].op = "select_seat" /\ req[w].pc = "rollback"
  /\ eks' = Del(eks, {ReservedKey(req[w].seat)})
  /\ req' = [req EXCEPT ![w] = Done(req[w], "419")]
  /\ UNCHANGED <<seats, bookings, nextBookingId, payments, nextPaymentId, reaper, nreq, cbvars>>

\* PATCH /api/seats/release, step 1: seat is RESERVED under a booking of the user
release_seat_check(w, u, s) ==
  /\ req[w] = Idle
  /\ LET r == [Idle EXCEPT !.op = "release_seat", !.user = u, !.seat = s]
         seat_ok == /\ seats[s].status = "RESERVED"
                    /\ seats[s].booking_id \in DOMAIN bookings
                    /\ bookings[seats[s].booking_id].user_id = u
     IN  req' = [req EXCEPT ![w] =
                   IF seat_ok THEN [r EXCEPT !.pc = "update"] ELSE Done(r, "403")]
  /\ UNCHANGED <<seats, bookings, nextBookingId, payments, nextPaymentId, eks, reaper, cbvars>>

\* UPDATE seats SET status='FREE', booking_id=NULL WHERE id=$1 AND status='RESERVED'
ReleaseSeatUpdate(st, s) ==
  IF st[s].status = "RESERVED"
  THEN [st EXCEPT ![s] = [status |-> "FREE", booking_id |-> NULL]] ELSE st

release_seat_update(w) ==
  /\ req[w].op = "release_seat" /\ req[w].pc = "update"
  /\ seats' = ReleaseSeatUpdate(seats, req[w].seat)
  /\ req' = [req EXCEPT ![w] =
               IF seats' # seats THEN [req[w] EXCEPT !.pc = "unlock"]
               ELSE Done(req[w], "419")]
  /\ UNCHANGED <<bookings, nextBookingId, payments, nextPaymentId, eks, reaper, nreq, cbvars>>

\* DEL seat:{id}:reserved
release_seat_unlock(w) ==
  /\ req[w].op = "release_seat" /\ req[w].pc = "unlock"
  /\ eks' = Del(eks, {ReservedKey(req[w].seat)})
  /\ req' = [req EXCEPT ![w].pc = "invalidate"]
  /\ UNCHANGED <<seats, bookings, nextBookingId, payments, nextPaymentId, reaper, nreq, cbvars>>

\* seat_event_id + invalidate_seats, then 200
release_seat_invalidate(w) ==
  /\ req[w].op = "release_seat" /\ req[w].pc = "invalidate"
  /\ eks' = invalidate_seats(eks)
  /\ req' = [req EXCEPT ![w] = Done(req[w], "200")]
  /\ UNCHANGED <<seats, bookings, nextBookingId, payments, nextPaymentId, reaper, nreq, cbvars>>

\* PATCH /api/bookings/cancel, step 1: ownership check
cancel_booking_check(w, u, b) ==
  /\ req[w] = Idle
  /\ LET r == [Idle EXCEPT !.op = "cancel_booking", !.user = u, !.booking = b]
     IN  req' = [req EXCEPT ![w] =
                   IF booking_belongs_to_user(bookings, b, u)
                   THEN [r EXCEPT !.pc = "event"] ELSE Done(r, "403")]
  /\ UNCHANGED <<seats, bookings, nextBookingId, payments, nextPaymentId, eks, reaper, cbvars>>

\* step 2: booking_event_id (fetch_one fails when the row is gone -> 500)
cancel_booking_event(w) ==
  /\ req[w].op = "cancel_booking" /\ req[w].pc = "event"
  /\ req' = [req EXCEPT ![w] =
               IF req[w].booking \in DOMAIN bookings
               THEN [req[w] EXCEPT !.pc = "tx"] ELSE Done(req[w], "500")]
  /\ UNCHANGED <<seats, bookings, nextBookingId, payments, nextPaymentId, eks, reaper, nreq, cbvars>>

\* the transaction with its first UPDATE only
CancelBookingTx_seats_only(db, b) ==
  Db(FreeSeatsOf(db.seats, b, "FREE"), db.bookings, db.payments)

\* the transaction of cancel_booking: free the RESERVED seats, mark cancelled
CancelBookingTx(db, b) ==
  Db(FreeSeatsOf(db.seats, b, "FREE"),
     SetBookingStatus(db.bookings, b, "cancelled"),
     db.payments)

\* step 3: the transaction, committed
cancel_booking_tx(w) ==
  /\ req[w].op = "cancel_booking" /\ req[w].pc = "tx"
  /\ LET db == CancelBookingTx(CurDb, req[w].booking)
     IN  /\ seats' = db.seats
         /\ bookings' = db.bookings
         /\ req' = [req EXCEPT ![w].pc = "post",
                               ![w].ret = ReservedSeatsOf(seats, req[w].booking)]
  /\ UNCHANGED <<nextBookingId, payments, nextPaymentId, eks, reaper, nreq, cbvars>>

\* step 4: the pipeline of DELs is built but never sent; invalidate_seats; 200
cancel_booking_post(w) ==
  /\ req[w].op = "cancel_booking" /\ req[w].pc = "post"
  /\ eks' = invalidate_seats(eks)
  /\ req' = [req EXCEPT ![w] = Done([req[w] EXCEPT !.ret = {}], "200")]
  /\ UNCHANGED <<seats, bookings, nextBookingId, payments, nextPaymentId, reaper, nreq, cbvars>>

\* PATCH /api/bookings/initiatePayment, step 1: booking of the user with
\* at least one RESERVED seat (HAVING COUNT(s.id) > 0), else 404
initiate_payment_check(w, u, b) ==
  /\ req[w] = Idle
  /\ LET r == [Idle EXCEPT !.op = "initiate_payment", !.user = u, !.booking = b]
         found == /\ booking_belongs_to_user(bookings, b, u)
                  /\ ReservedSeatsOf(seats, b) # {}
     IN  req' = [req EXCEPT ![w] =
                   IF found THEN [r EXCEPT !.pc = "gateway"] ELSE Done(r, "404")]
  /\ UNCHANGED <<seats, bookings, nextBookingId, payments, nextPaymentId, eks, reaper, cbvars>>

\* step 2: PaymentGatewayClient::create_payment on a breaker created for this
\* request; the gateway answers with a payment id, an error code, or not at all
initiate_payment_gateway(w) ==
  /\ req[w].op = "initiate_payment" /\ req[w].pc = "gateway"
  /\ \/ /\ nextPaymentId <= MaxPayments
        /\ nextPaymentId' = nextPaymentId + 1
        /\ req' = [req EXCEPT ![w].pc = "tx", ![w].pid = nextPaymentId]
     \/ /\ \E code \in {"502", "402"} : req' = [req EXCEPT ![w] = Done(req[w], code)]
        /\ UNCHANGED nextPaymentId
  /\ UNCHANGED <<seats, bookings, nextBookingId, payments, eks, reaper, nreq, cbvars>>

\* the transaction without its UPDATE of bookings
InitiatePaymentTx_insert_only(db, pid, b) ==
  Db(db.seats, db.bookings,
     [p \in (DOMAIN db.payments) \cup {pid} |->
        IF p = pid THEN [booking_id |-> b, status |-> "pending", old |-> FALSE]
        ELSE db.payments[p]])

\* INSERT INTO payment_transactions ...; UPDATE bookings SET status='pending_payment'
InitiatePaymentTx(db, pid, b) ==
  Db(db.seats,
     SetBookingStatus(db.bookings, b, "pending_payment"),
     [p \in (DOMAIN db.payments) \cup {pid} |->
        IF p = pid THEN [booking_id |-> b, status |-> "pending", old |-> FALSE]
        ELSE db.payments[p]])

\* step 3: the transaction, committed; 200
initiate_payment_tx(w) ==
  /\ req[w].op = "initiate_payment" /\ req[w].pc = "tx"
  /\ LET db == InitiatePaymentTx(CurDb, req[w].pid, req[w].booking)
     IN  /\ bookings' = db.bookings
         /\ payments' = db.payments
  /\ req' = [req EXCEPT ![w] = Done(req[w], "200")]
  /\ UNCHANGED <<seats, nextBookingId, nextPaymentId, eks, reaper, nreq, cbvars>>

\* POST /api/webhook/payment, step 1: resolve (booking_id, event_id)
process_webhook_lookup(w, pid, status) ==
  /\ req[w] = Idle
  /\ LET b == WebhookLookup(CurDb, pid)
         r == [Idle EXCEPT !.op = "webhook", !.pid = pid, !.status = status]
     IN  req' = [req EXCEPT ![w] =
                   IF b # NULL THEN [r EXCEPT !.pc = "dispatch", !.booking = b]
                   ELSE Done(r, "200")]
  /\ UNCHANGED <<seats, bookings, nextBookingId, payments, nextPaymentId, eks, reaper, cbvars>>

\* match status { ... }: the transaction the status selects.  For AUTHORIZED
\* `confirmed` says whether check_payment_status and confirm_payment went through.
WebhookDispatch(db, pid, b, status, confirmed) ==
  CASE status = "CONFIRMED" -> process_successful_payment(db, pid, b)
    [] status = "AUTHORIZED" /\ confirmed -> process_successful_payment(db, pid, b)
    [] status \in {"CANCELLED", "FAILED", "EXPIRED", "REFUNDED"} ->
         process_failed_payment(db, pid, b)
    [] OTHER -> db

\* which statuses run a handler that ends with the post-commit cleanup
WebhookCommits(status, confirmed) ==
  \/ status \in {"CONFIRMED", "CANCELLED", "FAILED", "EXPIRED", "REFUNDED"}
  \/ status = "AUTHORIZED" /\ confirmed

\* step 2: the handler's transaction, committed
process_webhook_dispatch(w) ==
  /\ req[w].op = "webhook" /\ req[w].pc = "dispatch"
  /\ \E confirmed \in BOOLEAN :
       LET db == WebhookDispatch(CurDb, req[w].pid, req[w].booking, req[w].status, confirmed)
       IN  /\ seats' = db.seats
           /\ bookings' = db.bookings
           /\ payments' = db.payments
           /\ req' = [req EXCEPT ![w] =
                        IF WebhookCommits(req[w].status, confirmed)
                        THEN [req[w] EXCEPT !.pc = "post",
                                            !.ret = ReservedSeatsOf(seats, req[w].booking)]
                        ELSE Done(req[w], "200")]
  /\ UNCHANGED <<nextBookingId, nextPaymentId, eks, reaper, nreq, cbvars>>

\* step 3: clear_redis_reservations(&seats); invalidate_seats(event_id); 200
process_webhook_post(w) ==
  /\ req[w].op = "webhook" /\ req[w].pc = "post"
  /\ eks' = invalidate_seats(clear_redis_reservations(eks, req[w].ret))
  /\ req' = [req EXCEPT ![w] = Done([req[w] EXCEPT !.ret = {}], "200")]
  /\ UNCHANGED <<seats, bookings, nextBookingId, payments, nextPaymentId, reaper, nreq, cbvars>>

\* the response is sent and the worker takes the next request
respond(w) ==
  /\ req[w].pc = "done"
  /\ req' = [req EXCEPT ![w] = Idle]
  /\ UNCHANGED <<seats, bookings, nextBookingId, payments, nextPaymentId, eks, reaper, nreq, cbvars>>

\* ----------------------------------------------------------------- Reaper
\* SELECT pt.transaction_id, b.id, b.event_id FROM payment_transactions pt
\*   JOIN bookings b ON b.id = pt.booking_id
\*   WHERE pt.status = 'pending' AND pt.created_at < NOW() - interval '15 minutes'
ExpiredPayments(db) ==
  {p \in DOMAIN db.payments :
     /\ db.payments[p].status = "pending"
     /\ db.payments[p].old
     /\ db.payments[p].booking_id \in DOMAIN db.bookings}

\* what the status check of one expired candidate can come to
ReaperChecks == {"CONFIRMED", "AUTHORIZED", "CANCELLED", "error", "open"}

\* the body of the for loop: a confirmed or authorized payment is completed,
\* anything else (also a failed or skipped check) is cleaned up
ReaperItem(db, pid, b, check) ==
  IF check \in {"CONFIRMED", "AUTHORIZED"}
  THEN process_successful_payment(db, pid, b)
  ELSE cleanup_expired_payment(db, pid, b)

\* the sweep starts: the snapshot of expired candidates is taken
cleanup_expired_payments_select ==
  /\ reaper.pc = "sleep"
  /\ ExpiredPayments(CurDb) # {}
  /\ reaper' = [reaper EXCEPT !.pc = "loop", !.queue = ExpiredPayments(CurDb)]
  /\ UNCHANGED <<seats, bookings, nextBookingId, payments, nextPaymentId, eks, req, nreq, cbvars>>

\* one candidate: status check, then the transaction it selects, committed
cleanup_expired_payments_item ==
  /\ reaper.pc = "loop"
  /\ \E pid \in reaper.queue : \E check \in ReaperChecks :
       LET b  == payments[pid].booking_id
           db == ReaperItem(CurDb, pid, b, check)
       IN  /\ seats' = db.seats
           /\ bookings' = db.bookings
           /\ payments' = db.payments
           /\ reaper' = [pc |-> "post", queue |-> reaper.queue \ {pid},
                         ret |-> ReservedSeatsOf(seats, b)]
  /\ UNCHANGED <<nextBookingId, nextPaymentId, eks, req, nreq, cbvars>>

\* post-commit cleanup of the candidate; next candidate, or sleep 300 s
cleanup_expired_payments_post ==
  /\ reaper.pc = "post"
  /\ eks' = invalidate_seats(clear_redis_reservations(eks, reaper.ret))
  /\ reaper' = [reaper EXCEPT !.pc = IF reaper.queue = {} THEN "sleep" ELSE "loop",
                              !.ret = {}]
  /\ UNCHANGED <<seats, bookings, nextBookingId, payments, nextPaymentId, req, nreq, cbvars>>

\* ------------------------------------------------------------------- time
\* a payment row becomes older than 15 minutes
payment_ages(p) ==
  /\ p \in DOMAIN payments /\ ~payments[p].old
  /\ payments' = [payments EXCEPT ![p].old = TRUE]
  /\ UNCHANGED <<seats, bookings, nextBookingId, nextPaymentId, eks, req, reaper, nreq, cbvars>>

\* the TTL (EX 300) of a key runs out
key_expires(k) ==
  /\ k \in DOMAIN eks
  /\ eks' = Del(eks, {k})
  /\ UNCHANGED <<seats, bookings, nextBookingId, payments, nextPaymentId, req, reaper, nreq, cbvars>>

\* ------------------------------------------------------------ specification
Next ==
  \/ \E u \in HttpUsers : create_booking(u)
  \/ \E w \in HttpWorkers, u \in HttpUsers, b \in BookingIds, s \in SeatIds :
       Accepts(w) /\ select_seat_check(w, u, b, s)
  \/ \E w \in HttpWorkers : select_seat_reserve(w)
  \/ \E w \in HttpWorkers : select_seat_update(w)
  \/ \E w \in HttpWorkers : select_seat_invalidate(w)
  \/ \E w \in HttpWorkers : select_seat_rollback(w)
  \/ \E w \in HttpWorkers, u \in HttpUsers, s \in SeatIds :
       Accepts(w) /\ release_seat_check(w, u, s)
  \/ \E w \in HttpWorkers : release_seat_update(w)
  \/ \E w \in HttpWorkers : release_seat_unlock(w)
  \/ \E w \in HttpWorkers : release_seat_invalidate(w)
  \/ \E w \in HttpWorkers, u \in HttpUsers, b \in BookingIds :
       Accepts(w) /\ cancel_booking_check(w, u, b)
  \/ \E w \in HttpWorkers : cancel_booking_event(w)
  \/ \E w \in HttpWorkers : cancel_booking_tx(w)
  \/ \E w \in HttpWorkers : cancel_booking_post(w)
  \/ \E w \in HttpWorkers, u \in HttpUsers, b \in BookingIds :
       Accepts(w) /\ initiate_payment_check(w, u, b)
  \/ \E w \in HttpWorkers : initiate_payment_gateway(w)
  \/ \E w \in HttpWorkers : initiate_payment_tx(w)
  \/ \E w \in HttpWorkers, pid \in PaymentIds, status \in WebhookStatuses :
       Accepts(w) /\ process_webhook_lookup(w, pid, status)
  \/ \E w \in HttpWorkers : process_webhook_dispatch(w)
  \/ \E w \in HttpWorkers : process_webhook_post(w)
  \/ \E w \in HttpWorkers : respond(w)
  \/ cleanup_expired_payments_select
  \/ cleanup_expired_payments_item
  \/ cleanup_expired_payments_post
  \/ \E p \in PaymentIds : payment_ages(p)
  \/ \E s \in SeatIds : key_expires(ReservedKey(s))

Spec == Init /\ [][Next]_vars

\* ------------------------------------------- contention on one seat (P1)
\* Three users, each with a booking of their own, call select_seat once.  Seat 1
\* is FREE and unlocked; seat 2 is held by user 3's booking and its lock has
\* run out, so a call on it passes the gate and is rolled back.  No TTL runs
\* out while the calls are in flight.
P1Seat == CHOOSE s \in SeatIds : \A t \in SeatIds : s <= t

InitP1 ==
  /\ seats = [s \in SeatIds |->
                IF s = P1Seat THEN [status |-> "FREE", booking_id |-> NULL]
                ELSE [status |-> "RESERVED", booking_id |-> 3]]
  /\ bookings = [b \in Users |-> [user_id |-> b, status |-> "created"]]
  /\ nextBookingId = 4
  /\ payments = <<>>
  /\ nextPaymentId = 1
  /\ eks = <<>>
  /\ req = [w \in Workers |-> Idle]
  /\ reaper = [pc |-> "sleep", queue |-> {}, ret |-> {}]
  /\ nreq = 0
  /\ NoBreaker

NextP1 ==
  \/ \E w \in Workers, s \in SeatIds : select_seat_check(w, w, w, s) /\ UNCHANGED nreq
  \/ \E w \in Workers : select_seat_reserve(w)
  \/ \E w \in Workers : select_seat_update(w)
  \/ \E w \in Workers : select_seat_invalidate(w)
  \/ \E w \in Workers : select_seat_rollback(w)

SpecP1 == InitP1 /\ [][NextP1]_vars

P1Calls == {w \in Workers : req[w].op = "select_seat" /\ req[w].seat = P1Seat}
P1Winners == {w \in P1Calls : req[w].result = "200"}

BookingOf(s) == seats[s].booking_id

\* C2 (invariant S1): a RESERVED or SOLD seat has a booking_id that refers to
\* an existing booking row, and a FREE seat has a null booking_id.
SingleHolder ==
  \A s \in SeatIds :
    /\ seats[s].status \in {"RESERVED", "SOLD"} =>
         BookingOf(s) # NULL /\ BookingOf(s) \in DOMAIN bookings
    /\ seats[s].status = "FREE" => BookingOf(s) = NULL

\* C3 (P4): a SOLD seat has a booking_id pointing to a booking in state paid.
NoOrphanSold ==
  \A s \in SeatIds :
    seats[s].status = "SOLD" =>
      /\ BookingOf(s) \in DOMAIN bookings
      /\ bookings[BookingOf(s)].status = "paid"

SeatTransitions ==
  {<<"FREE", "RESERVED">>, <<"RESERVED", "FREE">>, <<"RESERVED", "SOLD">>}

\* C4 (P2): every change of a seat's durable status is FREE->RESERVED,
\* RESERVED->FREE or RESERVED->SOLD, and no status outside
\* {FREE, RESERVED, SOLD} is ever written.
MonotonicToSold ==
  [][\A s \in SeatIds :
       /\ seats'[s].status \in SeatStatuses
       /\ seats'[s].status # seats[s].status =>
            <<seats[s].status, seats'[s].status>> \in SeatTransitions]_vars

\* C5: SOLD is terminal: no step changes the status or the booking_id of a
\* seat that is SOLD.
SoldIsTerminal ==
  [][\A s \in SeatIds : seats[s].status = "SOLD" => seats'[s] = seats[s]]_vars

\* a seat is SOLD and a later cancel_booking, failed-payment handler or Reaper
\* clean-up has acted on its booking
SoldIsTerminalWitness ==
  \E s \in SeatIds :
    /\ seats[s].status = "SOLD"
    /\ \/ BookingOf(s) \notin DOMAIN bookings
       \/ bookings[BookingOf(s)].status = "cancelled"

\* C6 (invariant B1): a paid booking has at least one SOLD seat of its own.
PaidHasSoldSeat ==
  \A b \in DOMAIN bookings :
    bookings[b].status = "paid" =>
      \E s \in SeatIds : BookingOf(s) = b /\ seats[s].status = "SOLD"

\* C7 (invariant B2): no seat references a cancelled booking.
CancelledHasNoSeats ==
  \A b \in DOMAIN bookings :
    bookings[b].status = "cancelled" => \A s \in SeatIds : BookingOf(s) # b

\* C8: paid and cancelled are terminal: a booking row in one of them never
\* gets a different status.
TerminalBookingStatus ==
  [][\A b \in DOMAIN bookings :
       (bookings[b].status \in {"paid", "cancelled"} /\ b \in DOMAIN bookings') =>
         bookings'[b].status = bookings[b].status]_vars

\* the payments a lifecycle handler acts on in this step: the one of a
\* webhook dispatch, or the candidate the Reaper takes from its snapshot
HandledPayments ==
  {req[w].pid : w \in {v \in Workers : /\ req[v].op = "webhook"
                                       /\ req[v].pc = "dispatch"
                                       /\ req'[v].pc # "dispatch"}}
  \cup (IF reaper.pc = "loop" /\ reaper'.pc = "post"
        THEN reaper.queue \ reaper'.queue ELSE {})

\* C9: the first committer wins: a handler (webhook or Reaper) that acts on a
\* payment which has already left pending changes no payment, booking or seat.
FirstCommitterWins ==
  [][\A p \in HandledPayments :
       payments[p].status # "pending" =>
         (payments' = payments /\ bookings' = bookings /\ seats' = seats)]_vars

\* process_webhook_notification run to completion on a state of DS and EKS
Store(db, e) == [db |-> db, eks |-> e]

process_webhook_notification(st, pid, status, confirmed) ==
  LET b == WebhookLookup(st.db, pid) IN
  IF b = NULL THEN st
  ELSE Store(WebhookDispatch(st.db, pid, b, status, confirmed),
             IF WebhookCommits(status, confirmed)
             THEN invalidate_seats(
                    clear_redis_reservations(st.eks, ReservedSeatsOf(st.db.seats, b)))
             ELSE st.eks)

WebhookCommitters(status) ==
  {w \in Workers : /\ req[w].op = "webhook" /\ req[w].pc = "dispatch"
                   /\ req[w].status = status /\ req'[w].pc = "post"}

\* C11: a CONFIRMED webhook for a pending payment p of an existing booking b
\* makes, in one transaction, p completed, b paid and every seat RESERVED on b
\* SOLD (still under b); every other seat, booking and payment row is unchanged.
ConfirmedWebhookSells ==
  [][\A w \in WebhookCommitters("CONFIRMED") :
       LET p == req[w].pid
           b == req[w].booking
       IN  (payments[p].status = "pending" /\ b \in DOMAIN bookings) =>
             /\ payments' = [payments EXCEPT ![p].status = "completed"]
             /\ bookings' = [bookings EXCEPT ![b].status = "paid"]
             /\ \A s \in SeatIds :
                  seats'[s] = IF s \in ReservedSeatsOf(seats, b)
                              THEN [status |-> "SOLD", booking_id |-> b]
                              ELSE seats[s]]_vars

\* a CONFIRMED webhook has just committed and sold at least one seat
ConfirmedWebhookSellsWitness ==
  \E w \in Workers :
    /\ req[w].op = "webhook" /\ req[w].pc = "post" /\ req[w].status = "CONFIRMED"
    /\ req[w].ret # {}
    /\ payments[req[w].pid].status = "completed"
    /\ \A s \in req[w].ret : seats[s] = [status |-> "SOLD", booking_id |-> req[w].booking]

\* C12: once the post-commit cleanup of process_successful_payment,
\* process_failed_payment or cleanup_expired_payment has run, the lock key
\* seat:{id}:reserved of every seat its seat update returned is absent.
LocksClearedAfterCommit ==
  [][/\ \A w \in Workers :
          (req[w].op = "webhook" /\ req[w].pc = "post" /\ req'[w].pc = "done") =>
            \A s \in req[w].ret : ReservedKey(s) \notin DOMAIN eks'
     /\ (reaper.pc = "post" /\ reaper'.pc # "post") =>
          \A s \in reaper.ret : ReservedKey(s) \notin DOMAIN eks']_vars

\* C13 (P3): when cancel_booking returns for a booking that has no payment,
\* every seat it freed is FREE with null booking_id, the booking is cancelled
\* and no key seat:{id}:reserved remains for any of those seats.
CancelIsInverse ==
  [][\A w \in Workers :
       LET b == req[w].booking IN
       (/\ req[w].op = "cancel_booking" /\ req[w].pc = "post" /\ req'[w].pc = "done"
        /\ \A p \in DOMAIN payments : payments[p].booking_id # b) =>
         /\ b \in DOMAIN bookings' /\ bookings'[b].status = "cancelled"
         /\ \A s \in req[w].ret :
              /\ seats'[s] = [status |-> "FREE", booking_id |-> NULL]
              /\ ReservedKey(s) \notin DOMAIN eks']_vars

\* C14: cancel_booking by the owner of a booking that is paid answers with a
\* conflict and changes neither the booking nor any seat.
CancelPaidIsConflict ==
  [][\A w \in Workers :
       LET b == IF req[w] = Idle THEN req'[w].booking ELSE req[w].booking
           paid == b \in DOMAIN bookings /\ bookings[b].status = "paid"
       IN  /\ (/\ req[w] = Idle /\ req'[w].op = "cancel_booking" /\ paid
                /\ booking_belongs_to_user(bookings, b, req'[w].user)) =>
                 (req'[w].pc = "done" /\ req'[w].result = "409")
           /\ (/\ req[w].op = "cancel_booking" /\ req[w].pc = "tx"
                /\ req'[w].pc # "tx" /\ paid) =>
                 (bookings' = bookings /\ seats' = seats)]_vars

\* C15 (P7): the Reaper step that handles an expired pending payment whose
\* gateway check returned CANCELLED moves the payment to expired, returns every
\* seat RESERVED on its booking to FREE with null booking_id and deletes the
\* booking row.
ExpiredReaper ==
  [][\A p \in (IF reaper.pc = "loop" /\ reaper'.pc = "post"
               THEN reaper.queue \ reaper'.queue ELSE {}) :
       LET b == payments[p].booking_id IN
       (/\ payments[p].status = "pending"
        /\ Db(seats', bookings', payments') = ReaperItem(CurDb, p, b, "CANCELLED")) =>
         /\ payments'[p].status = "expired"
         /\ b \notin DOMAIN bookings'
         /\ \A s \in ReservedSeatsOf(seats, b) :
              seats'[s] = [status |-> "FREE", booking_id |-> NULL]]_vars

\* ------------------------------------------------------ circuit breaker
\* One CircuitBreaker is shared by the callers of a cloned PaymentGatewayClient
\* (the client keeps it in an Arc).  Each method is cut at its atomic
\* operations and lock acquisitions; the gateway call is one step whose outcome
\* is an input.  failure_count (u32) stays far below its width within MaxCalls.
Callers == {1, 2}
Shared == 0

\* Instant::now().elapsed().as_secs(): the time since an instant taken just now
InstantNowElapsedSecs == 0

CircuitBreaker_new(failure_threshold, timeout_seconds) ==
  [state |-> "Closed", failure_count |-> 0, last_failure_time |-> 0,
   failure_threshold |-> failure_threshold, timeout_seconds |-> timeout_seconds]

NoCall == [pc |-> "idle", k |-> Shared, local |-> 0, result |-> "none",
           seen |-> 0, clean |-> TRUE, probe |-> FALSE, before |-> 0]

InitCB ==
  /\ seats = <<>> /\ bookings = <<>> /\ nextBookingId = 1
  /\ payments = <<>> /\ nextPaymentId = 1 /\ eks = <<>>
  /\ req = <<>> /\ reaper = <<>> /\ nreq = 0
  /\ \E n \in 1..MaxThreshold, t \in 0..MaxTimeout :
       cb = [k \in {Shared} |-> CircuitBreaker_new(n, t)]
  /\ call = [c \in Callers |-> NoCall]
  /\ obs = [now |-> 0, failed_at |-> 0, opened_at |-> 0, first |-> 0,
             streak |-> 0, outage |-> 0, ncalls |-> 0]

Breaker(c) == cb[call[c].k]

execute_with_circuit_breaker(c) ==
  /\ call[c].pc = "idle"
  /\ obs.ncalls < MaxCalls
  /\ call' = [call EXCEPT ![c] = [NoCall EXCEPT !.pc = "can_execute"]]
  /\ obs' = [obs EXCEPT !.ncalls = @ + 1]
  /\ UNCHANGED <<cb, dsvars>>

OpenTimedOut_reversed(k) == InstantNowElapsedSecs - k.last_failure_time <= k.timeout_seconds

\* the test can_execute makes on an Open breaker
OpenTimedOut(k) == InstantNowElapsedSecs - k.last_failure_time >= k.timeout_seconds

\* can_execute under the read lock; an Open breaker whose timeout has run out
\* drops the read lock before it takes the write lock
can_execute(c) ==
  /\ call[c].pc = "can_execute"
  /\ call' = [call EXCEPT ![c] =
       IF Breaker(c).state \in {"Closed", "HalfOpen"}
       THEN [@ EXCEPT !.pc = "operation", !.probe = Breaker(c).state = "HalfOpen"]
       ELSE IF OpenTimedOut(Breaker(c)) THEN [@ EXCEPT !.pc = "half_open"]
       ELSE [@ EXCEPT !.pc = "done", !.result = "Open"]]
  /\ UNCHANGED <<cb, obs, dsvars>>

can_execute_half_open(c) ==
  /\ call[c].pc = "half_open"
  /\ cb' = [cb EXCEPT ![call[c].k].state = "HalfOpen"]
  /\ call' = [call EXCEPT ![c] = [@ EXCEPT !.pc = "operation", !.probe = TRUE]]
  /\ obs' = [obs EXCEPT !.first = 0]
  /\ UNCHANGED dsvars

\* the request to the gateway: it comes back Ok or Err
operation(c) ==
  /\ call[c].pc = "operation"
  /\ \E ok \in BOOLEAN :
       call' = [call EXCEPT ![c].pc = IF ok THEN "record_success" ELSE "record_failure"]
  /\ UNCHANGED <<cb, obs, dsvars>>

RecordSuccess_any_state(k) == [k EXCEPT !.state = "Closed", !.failure_count = 0]

RecordSuccess_keeps_count(k) ==
  CASE k.state = "HalfOpen" -> [k EXCEPT !.state = "Closed", !.failure_count = 0]
    [] OTHER                -> k

RecordSuccess(k) ==
  CASE k.state = "HalfOpen" -> [k EXCEPT !.state = "Closed", !.failure_count = 0]
    [] k.state = "Closed"   -> [k EXCEPT !.failure_count = 0]
    [] OTHER                -> k

record_success(c) ==
  /\ call[c].pc = "record_success"
  /\ cb' = [cb EXCEPT ![call[c].k] = RecordSuccess(@)]
  /\ call' = [d \in Callers |->
       IF d = c THEN [call[d] EXCEPT !.pc = "done", !.result = "Ok"]
       ELSE IF call[d].k = call[c].k THEN [call[d] EXCEPT !.clean = FALSE]
       ELSE call[d]]
  /\ obs' = [obs EXCEPT !.streak = 0, !.outage = 0,
                        !.first = IF Breaker(c).state = "HalfOpen" THEN c ELSE @]
  /\ UNCHANGED dsvars

\* record_failure: fetch_add on the counter, outside the lock
record_failure_count(c) ==
  /\ call[c].pc = "record_failure"
  /\ cb' = [cb EXCEPT ![call[c].k].failure_count = @ + 1]
  /\ call' = [call EXCEPT ![c] = [@ EXCEPT !.pc = "record_failure_time",
                                          !.local = Breaker(c).failure_count + 1,
                                          !.seen = obs.streak + 1, !.clean = TRUE]]
  /\ obs' = [obs EXCEPT !.streak = @ + 1]
  /\ UNCHANGED dsvars

\* record_failure: the store of last_failure_time
record_failure_time(c) ==
  /\ call[c].pc = "record_failure_time"
  /\ cb' = [cb EXCEPT ![call[c].k].last_failure_time = InstantNowElapsedSecs]
  /\ call' = [call EXCEPT ![c].pc = "record_failure_state"]
  /\ obs' = [obs EXCEPT !.failed_at = obs.now]
  /\ UNCHANGED dsvars

RecordFailureState(k, failure_count) ==
  CASE k.state = "Closed" /\ failure_count >= k.failure_threshold -> [k EXCEPT !.state = "Open"]
    [] k.state = "HalfOpen" -> [k EXCEPT !.state = "Open"]
    [] OTHER -> k

\* record_failure: the match under the write lock
record_failure_state(c) ==
  /\ call[c].pc = "record_failure_state"
  /\ cb' = [cb EXCEPT ![call[c].k] = RecordFailureState(@, call[c].local)]
  /\ call' = [call EXCEPT ![c] = [@ EXCEPT !.pc = "done", !.result = "PaymentGatewayError"]]
  /\ obs' = [obs EXCEPT !.outage = @ + 1,
                        !.first = IF Breaker(c).state = "HalfOpen" THEN c ELSE @,
                        !.opened_at = IF Breaker(c).state # "Open" /\ cb'[call[c].k].state = "Open"
                                      THEN obs.now ELSE @]
  /\ UNCHANGED dsvars

return(c) ==
  /\ call[c].pc = "done"
  /\ call' = [call EXCEPT ![c].pc = "idle"]
  /\ UNCHANGED <<cb, obs, dsvars>>

\* a second of wall-clock time passes
second_passes ==
  /\ obs.now < MaxClock
  /\ obs' = [obs EXCEPT !.now = @ + 1]
  /\ UNCHANGED <<cb, call, dsvars>>

NextCB ==
  \/ \E c \in Callers : execute_with_circuit_breaker(c)
  \/ \E c \in Callers : can_execute(c)
  \/ \E c \in Callers : can_execute_half_open(c)
  \/ \E c \in Callers : operation(c)
  \/ \E c \in Callers : record_success(c)
  \/ \E c \in Callers : record_failure_count(c)
  \/ \E c \in Callers : record_failure_time(c)
  \/ \E c \in Callers : record_failure_state(c)
  \/ \E c \in Callers : return(c)
  \/ second_passes

SpecCB == InitCB /\ [][NextCB]_vars

\* the callers whose record_failure takes the write lock in this step
FailureDeciders == {c \in Callers : call[c].pc = "record_failure_state" /\ call'[c].pc = "done"}

Askers == {c \in Callers : call[c].pc = "can_execute" /\ call'[c].pc # "can_execute"}

\* the callers whose record_success runs in this step
SuccessDeciders == {c \in Callers : call[c].pc = "record_success" /\ call'[c].pc = "done"}

\* C17: once the breaker has been Open for at least timeout_seconds (and as long
\* since the last failure), the next can_execute goes on to set HalfOpen and
\* admits the call.
OpenTimesOut ==
  [][\A c \in Askers :
       (/\ cb[Shared].state = "Open"
        /\ obs.now - obs.opened_at >= cb[Shared].timeout_seconds
        /\ obs.now - obs.failed_at >= cb[Shared].timeout_seconds) =>
         call'[c].pc = "half_open"]_vars

OpenRejects ==
  [][\A c \in Askers :
       (/\ cb[Shared].state = "Open"
        /\ \/ obs.now - obs.opened_at < cb[Shared].timeout_seconds
           \/ obs.now - obs.failed_at < cb[Shared].timeout_seconds) =>
         /\ call'[c].pc = "done" /\ call'[c].result = "Open"
         /\ cb' = cb]_vars

OpenRejectsWitness ==
  \E c \in Callers :
    /\ call[c].pc = "done" /\ call[c].result = "Open"
    /\ cb[Shared].state = "Open"
    /\ obs.now - obs.opened_at < cb[Shared].timeout_seconds

\* ------------------------------------- gateway outage seen by initiate_payment
\* Every initiate_payment request builds its own PaymentGatewayClient with
\* from_config, and from_config makes a new CircuitBreaker from the configured
\* defaults; the request's create_payment then runs through that breaker.
DefaultFailureThreshold == 5
DefaultTimeoutSeconds == 60

from_config == CircuitBreaker_new(DefaultFailureThreshold, DefaultTimeoutSeconds)

InitOutage ==
  /\ seats = <<>> /\ bookings = <<>> /\ nextBookingId = 1
  /\ payments = <<>> /\ nextPaymentId = 1 /\ eks = <<>>
  /\ req = <<>> /\ reaper = <<>> /\ nreq = 0
  /\ cb = <<>>
  /\ call = [c \in Callers |-> NoCall]
  /\ obs = [now |-> 0, failed_at |-> 0, opened_at |-> 0, first |-> 0,
            streak |-> 0, outage |-> 0, ncalls |-> 0]

\* initiate_payment up to its call of create_payment
initiate_payment_create_payment(c) ==
  /\ call[c].pc = "idle"
  /\ obs.ncalls < MaxOutageRequests
  /\ cb' = [k \in DOMAIN cb \cup {c} |-> IF k = c THEN from_config ELSE cb[k]]
  /\ call' = [call EXCEPT ![c] = [NoCall EXCEPT !.pc = "can_execute", !.k = c,
                                               !.before = obs.outage]]
  /\ obs' = [obs EXCEPT !.ncalls = @ + 1]
  /\ UNCHANGED dsvars

\* the status initiate_payment answers with for the result of create_payment
initiate_payment_status(result) ==
  CASE result = "Open" -> "503"
    [] result = "PaymentGatewayError" -> "502"
    [] OTHER -> "200"

NextOutage ==
  \/ \E c \in Callers : initiate_payment_create_payment(c)
  \/ \E c \in Callers : can_execute(c)
  \/ \E c \in Callers : operation(c)
  \/ \E c \in Callers : record_success(c)
  \/ \E c \in Callers : record_failure_count(c)
  \/ \E c \in Callers : record_failure_time(c)
  \/ \E c \in Callers : record_failure_state(c)
  \/ \E c \in Callers : return(c)

SpecOutage == InitOutage /\ [][NextOutage]_vars

\* C20 (P6): a request that starts after five initiate_payment requests in a
\* row have failed at the gateway is answered 503 by its can_execute and never
\* reaches the gateway.
OutageOpensBreaker ==
  [][\A c \in Askers :
       call[c].before >= DefaultFailureThreshold =>
         /\ call'[c].pc = "done"
         /\ initiate_payment_status(call'[c].result) = "503"]_vars

\* --------------------------------------------- release_seat under contention
\* Seat 1 is RESERVED under user 1's booking and its lock is set; seat 2 is
\* held by user 3's booking and its lock has run out.  Three request tasks run
\* release_seat and select_seat calls of any user on these seats.
InitRelease ==
  /\ seats = [s \in SeatIds |->
                IF s = P1Seat THEN [status |-> "RESERVED", booking_id |-> 1]
                ELSE [status |-> "RESERVED", booking_id |-> 3]]
  /\ bookings = [b \in Users |-> [user_id |-> b, status |-> "created"]]
  /\ nextBookingId = 4
  /\ payments = <<>>
  /\ nextPaymentId = 1
  /\ eks = SetKey(<<>>, ReservedKey(P1Seat), 1)
  /\ req = [w \in Workers |-> Idle]
  /\ reaper = [pc |-> "sleep", queue |-> {}, ret |-> {}]
  /\ nreq = 0
  /\ NoBreaker

NextRelease ==
  \/ \E w \in Workers, u \in Users, s \in SeatIds :
       release_seat_check(w, u, s) /\ UNCHANGED nreq
  \/ \E w \in Workers : release_seat_update(w)
  \/ \E w \in Workers : release_seat_unlock(w)
  \/ \E w \in Workers : release_seat_invalidate(w)
  \/ \E w \in Workers, u \in Users, s \in SeatIds :
       select_seat_check(w, u, u, s) /\ UNCHANGED nreq
  \/ \E w \in Workers : select_seat_reserve(w)
  \/ \E w \in Workers : select_seat_update(w)
  \/ \E w \in Workers : select_seat_invalidate(w)
  \/ \E w \in Workers : select_seat_rollback(w)

SpecRelease == InitRelease /\ [][NextRelease]_vars

\* the seat is RESERVED under a booking that belongs to another user than u
HeldByOther(s, u) ==
  /\ seats[s].status = "RESERVED"
  /\ seats[s].booking_id \in DOMAIN bookings
  /\ bookings[seats[s].booking_id].user_id # u

\* C21: a release_seat call of user u never frees a seat that is, at the moment
\* of its update, RESERVED under another user's booking, and never deletes the
\* lock of such a seat.
ReleaseOnlyOwn ==
  [][\A w \in Workers :
       (/\ req[w].op = "release_seat" /\ req[w].pc \in {"update", "unlock"}
        /\ req'[w] # req[w]
        /\ HeldByOther(req[w].seat, req[w].user)) =>
         /\ seats'[req[w].seat] = seats[req[w].seat]
         /\ (ReservedKey(req[w].seat) \in DOMAIN eks) =>
              ReservedKey(req[w].seat) \in DOMAIN eks']_vars

\* ------------------------------------------------ rejected calls (contracts)
\* C22: select_seat goes on to the EKS gate only with a booking that exists and
\* belongs to the caller; otherwise it is answered 419 at once, and no key of
\* the EKS and no seat row has changed.
SelectSeatForeignBooking ==
  [][\A w \in Workers :
       (req[w] = Idle /\ req'[w].op = "select_seat") =>
         \/ /\ req'[w].pc = "reserve"
            /\ req'[w].booking \in DOMAIN bookings
            /\ bookings[req'[w].booking].user_id = req'[w].user
         \/ /\ req'[w].pc = "done" /\ req'[w].result = "419"
            /\ eks' = eks /\ seats' = seats]_vars

\* the only request made so far is a select_seat on a FREE, unlocked seat, and
\* it was answered 419: its booking was missing or another user's
SelectSeatForeignBookingWitness ==
  /\ nreq = 1 /\ eks = <<>>
  /\ \E w \in Workers :
       /\ req[w].op = "select_seat" /\ req[w].pc = "done" /\ req[w].result = "419"
       /\ seats[req[w].seat] = [status |-> "FREE", booking_id |-> NULL]
  /\ \A s \in SeatIds : seats[s].status = "FREE"

\* C23: initiate_payment goes on to the gateway only with a booking of the
\* caller that has a RESERVED seat; otherwise it is answered with a conflict
\* (409 or 419) at once, without a gateway call and with bookings and
\* payment_transactions unchanged.
InitiatePaymentRejects ==
  [][\A w \in Workers :
       (req[w] = Idle /\ req'[w].op = "initiate_payment") =>
         \/ /\ req'[w].pc = "gateway"
            /\ req'[w].booking \in DOMAIN bookings
            /\ bookings[req'[w].booking].user_id = req'[w].user
            /\ ReservedSeatsOf(seats, req'[w].booking) # {}
         \/ /\ req'[w].pc = "done" /\ req'[w].result \in {"409", "419"}
            /\ bookings' = bookings /\ payments' = payments
            /\ nextPaymentId' = nextPaymentId]_vars

\* C24: an initiate_payment whose gateway call does not succeed changes no
\* payment row, no booking and no seat; a payment row is only ever inserted,
\* as pending, by the transaction of an initiate_payment that got a payment id
\* from the gateway, together with the booking's status pending_payment, and a
\* booking only becomes pending_payment in a step that inserts its payment row.
GatewayFailureWritesNothing ==
  [][/\ \A w \in Workers :
          (req[w].op = "initiate_payment" /\ req[w].pc = "gateway" /\ req'[w].pc = "done") =>
            payments' = payments /\ bookings' = bookings /\ seats' = seats
     /\ DOMAIN payments' # DOMAIN payments =>
          \E w \in Workers :
            /\ req[w].op = "initiate_payment" /\ req[w].pc = "tx" /\ req'[w].pc = "done"
            /\ DOMAIN payments' = DOMAIN payments \cup {req[w].pid}
            /\ payments'[req[w].pid].status = "pending"
            /\ payments'[req[w].pid].booking_id = req[w].booking
            /\ req[w].booking \in DOMAIN bookings =>
                 bookings'[req[w].booking].status = "pending_payment"
            /\ seats' = seats
     /\ \A b \in DOMAIN bookings \cap DOMAIN bookings' :
          (bookings[b].status # "pending_payment" /\ bookings'[b].status = "pending_payment") =>
            \E p \in DOMAIN payments' \ DOMAIN payments :
              payments'[p].booking_id = b /\ payments'[p].status = "pending"]_vars

\* a gateway failure was answered and nothing has been written
GatewayFailureWitness ==
  /\ \E w \in Workers :
       req[w].op = "initiate_payment" /\ req[w].pc = "done" /\ req[w].result \in {"502", "402"}
  /\ payments = <<>>
  /\ \A b \in DOMAIN bookings : bookings[b].status = "created"
  /\ \E s \in SeatIds : seats[s].status = "RESERVED"

\* ------------------------------------------------------------ admin reset
\* POST /api/reset, run while no other request and no Reaper sweep is in
\* flight; ordinary traffic comes before and after it.
\* UPDATE seats SET status='FREE', booking_id=NULL WHERE status IN ('RESERVED','SELECTED');
\* DELETE FROM payment_transactions; DELETE FROM bookings; COMMIT
ResetTx(db) ==
  Db([s \in SeatIds |->
        IF db.seats[s].status \in {"RESERVED", "SELECTED"}
        THEN [status |-> "FREE", booking_id |-> NULL]
        ELSE SeatsAfterBookingDelete(db.seats, db.seats[s].booking_id)[s]],
     <<>>, <<>>)

Quiet ==
  /\ \A v \in Workers : req[v] = Idle \/ req[v].pc = "done"
  /\ reaper.pc = "sleep"

\* the transaction, with ALTER SEQUENCE bookings_id_seq RESTART WITH 1
reset_all_test_data_tx(w) ==
  /\ Quiet
  /\ req[w] = Idle
  /\ \A v \in Workers : v < w => req[v] # Idle
  /\ LET db == ResetTx(CurDb)
     IN  /\ seats' = db.seats
         /\ bookings' = db.bookings
         /\ payments' = db.payments
  /\ nextBookingId' = 1
  /\ req' = [req EXCEPT ![w] = [Idle EXCEPT !.op = "reset", !.pc = "purge"]]
  /\ UNCHANGED <<nextPaymentId, eks, reaper, nreq, cbvars>>

\* KEYS seat:*:reserved and KEYS seats:*, each followed by DEL of what it found
reset_all_test_data_purge(w) ==
  /\ req[w].op = "reset" /\ req[w].pc = "purge"
  /\ eks' = Del(eks, {ReservedKey(s) : s \in SeatIds} \cup {SeatsKey})
  /\ req' = [req EXCEPT ![w] = Done(req[w], "200")]
  /\ UNCHANGED <<seats, bookings, nextBookingId, payments, nextPaymentId, reaper, nreq, cbvars>>

ResetRunning == \E w \in Workers : req[w].op = "reset" /\ req[w].pc # "done"

NextReset ==
  \/ ~ResetRunning /\ Next
  \/ \E w \in HttpWorkers : reset_all_test_data_tx(w)
  \/ \E w \in HttpWorkers : reset_all_test_data_purge(w)

SpecReset == Init /\ [][NextReset]_vars

\* C25: when a reset that ran alone completes, the bookings and payment tables
\* are empty, no lock seat:*:reserved is left, and no seat is RESERVED or SOLD:
\* every seat with a status of the seat state machine is FREE with no booking.
ResetFreesEverySeat ==
  [][\A w \in Workers :
       (req[w].op = "reset" /\ req[w].pc = "purge" /\ req'[w].pc = "done") =>
         /\ bookings' = <<>> /\ payments' = <<>>
         /\ \A s \in SeatIds :
              /\ ReservedKey(s) \notin DOMAIN eks'
              /\ seats'[s].status \in SeatStatuses =>
                   seats'[s] = [status |-> "FREE", booking_id |-> NULL]]_vars

\* ------------------------------------------------------------- seats cache
\* CacheService::get_seats beside select_seat calls.  seats:{event_id} holds the
\* rows as they are (written by the warm-up or an earlier get_seats) or is
\* absent (its TTL of 24 h has run out).  Seat 1 is FREE, seat 2 is RESERVED
\* with its lock run out (as in the contention scenario).
\* load_seats_from_db: SELECT ... FROM seats WHERE event_id = $1
load_seats_from_db(st) == {<<s, st[s].status>> : s \in SeatIds}

\* update_seats_with_reservations: a FREE seat whose lock exists is shown SELECTED
update_seats_with_reservations(data, store) ==
  {<<x[1], IF x[2] = "FREE" /\ ReservedKey(x[1]) \in DOMAIN store THEN "SELECTED" ELSE x[2]>> :
     x \in data}

InitCache ==
  /\ seats = [s \in SeatIds |->
                IF s = P1Seat THEN [status |-> "FREE", booking_id |-> NULL]
                ELSE [status |-> "RESERVED", booking_id |-> 3]]
  /\ bookings = [b \in Users |-> [user_id |-> b, status |-> "created"]]
  /\ nextBookingId = 4
  /\ payments = <<>>
  /\ nextPaymentId = 1
  /\ eks \in {<<>>, SetKey(<<>>, SeatsKey, load_seats_from_db(seats))}
  /\ req = [w \in Workers |-> Idle]
  /\ reaper = [pc |-> "sleep", queue |-> {}, ret |-> {}]
  /\ nreq = 0
  /\ NoBreaker

\* the seats whose reservation is committed and whose handler has run its
\* cache invalidation
Settled ==
  {s \in SeatIds :
     /\ seats[s].status = "RESERVED"
     /\ \A v \in Workers :
          ~(req[v].op = "select_seat" /\ req[v].seat = s /\ req[v].pc = "invalidate")}

\* get_seats, step 1: GET seats:{event_id}
get_seats_from_cache(w) ==
  /\ req[w] = Idle
  /\ req' = [req EXCEPT ![w] =
       IF SeatsKey \in DOMAIN eks
       THEN [Idle EXCEPT !.op = "get_seats", !.pc = "overlay", !.data = eks[SeatsKey],
                         !.after = Settled]
       ELSE [Idle EXCEPT !.op = "get_seats", !.pc = "load", !.after = Settled]]
  /\ UNCHANGED <<seats, bookings, nextBookingId, payments, nextPaymentId, eks, reaper, nreq, cbvars>>

\* step 2 (miss): load_seats_from_db
get_seats_load(w) ==
  /\ req[w].op = "get_seats" /\ req[w].pc = "load"
  /\ req' = [req EXCEPT ![w].pc = "save", ![w].data = load_seats_from_db(seats)]
  /\ UNCHANGED <<seats, bookings, nextBookingId, payments, nextPaymentId, eks, reaper, nreq, cbvars>>

\* step 3 (miss): save_seats_to_cache, SET seats:{event_id} EX 86400
get_seats_save(w) ==
  /\ req[w].op = "get_seats" /\ req[w].pc = "save"
  /\ eks' = SetKey(eks, SeatsKey, req[w].data)
  /\ req' = [req EXCEPT ![w].pc = "overlay"]
  /\ UNCHANGED <<seats, bookings, nextBookingId, payments, nextPaymentId, reaper, nreq, cbvars>>

\* last step: update_seats_with_reservations, and the list is returned
get_seats_overlay(w) ==
  /\ req[w].op = "get_seats" /\ req[w].pc = "overlay"
  /\ req' = [req EXCEPT ![w].pc = "done",
                        ![w].data = update_seats_with_reservations(req[w].data, eks)]
  /\ UNCHANGED <<seats, bookings, nextBookingId, payments, nextPaymentId, eks, reaper, nreq, cbvars>>

NextCache ==
  \/ \E w \in Workers : get_seats_from_cache(w)
  \/ \E w \in Workers : get_seats_load(w)
  \/ \E w \in Workers : get_seats_save(w)
  \/ \E w \in Workers : get_seats_overlay(w)
  \/ \E w \in Workers, s \in SeatIds : select_seat_check(w, w, w, s) /\ UNCHANGED nreq
  \/ \E w \in Workers : select_seat_reserve(w)
  \/ \E w \in Workers : select_seat_update(w)
  \/ \E w \in Workers : select_seat_invalidate(w)
  \/ \E w \in Workers : select_seat_rollback(w)
  \/ \E w \in Workers : respond(w)

SpecCache == InitCache /\ [][NextCache]_vars

\* C26: a get_seats call that starts after a seat's reservation has committed
\* and the cache invalidation of that transition has run returns the seat as
\* RESERVED, whatever other get_seats calls were in flight during the transition.
ReadsSeeCommitted ==
  [][\A w \in Workers :
       (req[w].op = "get_seats" /\ req[w].pc = "overlay" /\ req'[w].pc = "done") =>
         \A s \in req[w].after : <<s, "RESERVED">> \in req'[w].data]_vars

\* ----------------------------------------------------- Reaper and unwinding
\* C27: no payment stays pending for ever: every payment row that is pending
\* and older than 15 minutes is a candidate of the Reaper, returned by the
\* SELECT of its next sweep or held in the snapshot of the sweep under way.
NoStuckPending ==
  \A p \in DOMAIN payments :
    (payments[p].status = "pending" /\ payments[p].old) =>
      (p \in ExpiredPayments(CurDb) \/ p \in reaper.queue)


\* ------------------------------------------------------------ DS failures
\* A statement sent to the DS can fail (connection lost, statement timeout):
\* sqlx returns Err and the handler takes its error branch.  The calls start
\* with seat 1 FREE and unlocked and seat 2 RESERVED and locked under booking 3,
\* which waits for its payment 1; user u owns booking u; the list of seats is
\* cached.  Users 1 and 2 select seats, user 3 releases and cancels, the
\* gateway reports on payment 1 and the Reaper sweeps.

\* select_seat, step 3 when the UPDATE returns Err: .unwrap_or(false)
select_seat_update_error(w) ==
  /\ req[w].op = "select_seat" /\ req[w].pc = "update"
  /\ req' = [req EXCEPT ![w].pc = "rollback"]
  /\ UNCHANGED <<seats, bookings, nextBookingId, payments, nextPaymentId, eks, reaper, nreq, cbvars>>

\* release_seat when its UPDATE returns Err: .unwrap_or(false), 419
release_seat_update_error(w) ==
  /\ req[w].op = "release_seat" /\ req[w].pc = "update"
  /\ req' = [req EXCEPT ![w] = Done(req[w], "419")]
  /\ UNCHANGED <<seats, bookings, nextBookingId, payments, nextPaymentId, eks, reaper, nreq, cbvars>>

\* cancel_booking when one of its UPDATEs or the commit returns Err:
\* tx.rollback() (or the drop of tx), 500
cancel_booking_tx_error(w) ==
  /\ req[w].op = "cancel_booking" /\ req[w].pc = "tx"
  /\ req' = [req EXCEPT ![w] = Done(req[w], "500")]
  /\ UNCHANGED <<seats, bookings, nextBookingId, payments, nextPaymentId, eks, reaper, nreq, cbvars>>

\* the same failure, with the branch of the cleanup taken all the same
process_webhook_dispatch_error_cleans(w) ==
  /\ req[w].op = "webhook" /\ req[w].pc = "dispatch"
  /\ req' = [req EXCEPT ![w].pc = "post",
                        ![w].ret = ReservedSeatsOf(seats, req[w].booking)]
  /\ UNCHANGED <<seats, bookings, nextBookingId, payments, nextPaymentId, eks, reaper, nreq, cbvars>>

\* a payment handler of the webhook when tx.commit() returns Err: the branch
\* of the cleanup is skipped; the webhook answers 200 all the same
process_webhook_dispatch_error(w) ==
  /\ req[w].op = "webhook" /\ req[w].pc = "dispatch"
  /\ req' = [req EXCEPT ![w] = Done(req[w], "200")]
  /\ UNCHANGED <<seats, bookings, nextBookingId, payments, nextPaymentId, eks, reaper, nreq, cbvars>>

\* the Reaper's handler when tx.commit() returns Err: on to the next candidate
cleanup_expired_payments_item_error ==
  /\ reaper.pc = "loop"
  /\ \E pid \in reaper.queue :
       reaper' = [pc |-> IF reaper.queue = {pid} THEN "sleep" ELSE "loop",
                  queue |-> reaper.queue \ {pid}, ret |-> {}]
  /\ UNCHANGED <<seats, bookings, nextBookingId, payments, nextPaymentId, eks, req, nreq, cbvars>>

FaultSeat == CHOOSE s \in SeatIds : \A t \in SeatIds : s >= t
FaultUser == CHOOSE u \in Users : \A v \in Users : u >= v

InitFault ==
  /\ seats = [s \in SeatIds |->
                IF s = FaultSeat THEN [status |-> "RESERVED", booking_id |-> FaultUser]
                ELSE [status |-> "FREE", booking_id |-> NULL]]
  /\ bookings = [b \in Users |->
                   [user_id |-> b,
                    status |-> IF b = FaultUser THEN "pending_payment" ELSE "created"]]
  /\ nextBookingId = 4
  /\ payments = [p \in {1} |-> [booking_id |-> FaultUser, status |-> "pending", old |-> FALSE]]
  /\ nextPaymentId = 2
  /\ eks = SetKey(SetKey(<<>>, ReservedKey(FaultSeat), FaultUser),
                  SeatsKey, load_seats_from_db(seats))
  /\ req = [w \in Workers |-> Idle]
  /\ reaper = [pc |-> "sleep", queue |-> {}, ret |-> {}]
  /\ nreq = 0
  /\ NoBreaker

NextFault ==
  \/ \E w \in HttpWorkers, s \in SeatIds : select_seat_check(w, w, w, s) /\ UNCHANGED nreq
  \/ \E w \in HttpWorkers : select_seat_reserve(w)
  \/ \E w \in HttpWorkers : select_seat_update(w)
  \/ \E w \in HttpWorkers : select_seat_update_error(w)
  \/ \E w \in HttpWorkers : select_seat_invalidate(w)
  \/ \E w \in HttpWorkers : select_seat_rollback(w)
  \/ \E w \in HttpWorkers : release_seat_check(w, FaultUser, FaultSeat) /\ UNCHANGED nreq
  \/ \E w \in HttpWorkers : release_seat_update(w)
  \/ \E w \in HttpWorkers : release_seat_update_error(w)
  \/ \E w \in HttpWorkers : release_seat_unlock(w)
  \/ \E w \in HttpWorkers : release_seat_invalidate(w)
  \/ \E w \in HttpWorkers : cancel_booking_check(w, FaultUser, FaultUser) /\ UNCHANGED nreq
  \/ \E w \in HttpWorkers : cancel_booking_event(w)
  \/ \E w \in HttpWorkers : cancel_booking_tx(w)
  \/ \E w \in HttpWorkers : cancel_booking_tx_error(w)
  \/ \E w \in HttpWorkers : cancel_booking_post(w)
  \/ \E w \in HttpWorkers, status \in WebhookStatuses :
       process_webhook_lookup(w, 1, status) /\ UNCHANGED nreq
  \/ \E w \in HttpWorkers : process_webhook_dispatch(w)
  \/ \E w \in HttpWorkers : process_webhook_dispatch_error(w)
  \/ \E w \in HttpWorkers : process_webhook_post(w)
  \/ cleanup_expired_payments_select
  \/ cleanup_expired_payments_item
  \/ cleanup_expired_payments_item_error
  \/ cleanup_expired_payments_post
  \/ payment_ages(1)
  \/ \E s \in SeatIds : key_expires(ReservedKey(s))

SpecFault == InitFault /\ [][NextFault]_vars

\* C28: when select_seat has passed the gate and its UPDATE changes no row
\* (the seat is not FREE, or the statement fails), the handler goes on to the
\* unwinding, which deletes the key seat:{id}:reserved and answers 419; neither
\* of the two steps changes a row of seats.
SelectSeatUnwinds ==
  [][\A w \in HttpWorkers :
       /\ (/\ req[w].op = "select_seat" /\ req[w].pc = "update"
           /\ req'[w] # req[w]
           /\ seats'[req[w].seat] = seats[req[w].seat]) =>
            (req'[w].pc = "rollback" /\ seats' = seats)
       /\ (/\ req[w].op = "select_seat" /\ req[w].pc = "rollback"
           /\ req'[w] # req[w]) =>
            /\ req'[w].pc = "done" /\ req'[w].result = "419"
            /\ ReservedKey(req[w].seat) \notin DOMAIN eks'
            /\ seats' = seats]_vars

\* the first caller was unwound after a failed UPDATE of the FREE seat: nobody
\* else has called, so the 419 cannot come from the gate
SelectSeatUnwindsWitness ==
  /\ req[1].op = "select_seat" /\ req[1].pc = "done" /\ req[1].result = "419"
  /\ req[1].seat = P1Seat
  /\ \A w \in Workers \ {1} : req[w] = Idle
  /\ reaper.pc = "sleep"
  /\ seats = [s \in SeatIds |->
                IF s = FaultSeat THEN [status |-> "RESERVED", booking_id |-> FaultUser]
                ELSE [status |-> "FREE", booking_id |-> NULL]]
  /\ ReservedKey(P1Seat) \notin DOMAIN eks

\* the positions of a handler after its commit: the post-commit cleanup
CleanupPc(r) ==
  \/ r.op = "select_seat" /\ r.pc = "invalidate"
  \/ r.op = "release_seat" /\ r.pc \in {"unlock", "invalidate"}
  \/ r.op = "cancel_booking" /\ r.pc = "post"
  \/ r.op = "webhook" /\ r.pc = "post"

\* the step of worker w is the commit of its operation: the DS goes from its
\* state before to the result of the operation's statements
Commits(w) ==
  LET r  == req[w]
      db == Db(seats', bookings', payments')
  IN  CASE r.op = "select_seat" ->
             /\ r.pc = "update" /\ seats[r.seat].status = "FREE"
             /\ db = Db(SelectSeatUpdate(seats, r.seat, r.booking), bookings, payments)
        [] r.op = "release_seat" ->
             /\ r.pc = "update" /\ seats[r.seat].status = "RESERVED"
             /\ db = Db(ReleaseSeatUpdate(seats, r.seat), bookings, payments)
        [] r.op = "cancel_booking" ->
             /\ r.pc = "tx" /\ db = CancelBookingTx(CurDb, r.booking)
        [] r.op = "webhook" ->
             /\ r.pc = "dispatch"
             /\ \E confirmed \in BOOLEAN :
                  /\ WebhookCommits(r.status, confirmed)
                  /\ db = WebhookDispatch(CurDb, r.pid, r.booking, r.status, confirmed)
        [] OTHER -> FALSE

CancelBookingAtomic ==
  [][\A w \in HttpWorkers :
       /\ (req[w].op = "cancel_booking" /\ req[w].pc = "tx" /\ req'[w] # req[w]) =>
            \/ /\ Db(seats', bookings', payments') = CancelBookingTx(CurDb, req[w].booking)
               /\ req'[w].pc = "post"
            \/ /\ Db(seats', bookings', payments') = CurDb
               /\ req'[w].pc = "done" /\ req'[w].result = "500"
       /\ (req[w].op = "cancel_booking" /\ req'[w] # req[w] /\ seats' # seats) =>
            /\ req[w].booking \in DOMAIN bookings'
            /\ bookings'[req[w].booking].status = "cancelled"
            /\ \A s \in SeatIds :
                 seats'[s] # seats[s] =>
                   /\ seats[s] = [status |-> "RESERVED", booking_id |-> req[w].booking]
                   /\ seats'[s] = [status |-> "FREE", booking_id |-> NULL]]_vars

\* the first call of all is a cancel_booking whose transaction has failed:
\* the seat is still RESERVED under the booking, which still waits for payment
CancelBookingAtomicWitness ==
  /\ req[1].op = "cancel_booking" /\ req[1].pc = "done" /\ req[1].result = "500"
  /\ \A w \in Workers \ {1} : req[w] = Idle
  /\ reaper.pc = "sleep"
  /\ seats[FaultSeat] = [status |-> "RESERVED", booking_id |-> FaultUser]
  /\ bookings[FaultUser].status = "pending_payment"
  /\ payments[1].status = "pending"

\* ------------------------------------------------- the AUTHORIZED webhook
\* What the gateway answers to the two calls of the AUTHORIZED arm.
\* check_payment_status: Err (no answer, or not a PaymentCheckResponse), Ok
\* with amount, currency or orderId missing, Ok with all three.
\* confirm_payment: Err, Ok with success = false (the gateway refuses to
\* capture), Ok with success = true.
CheckAnswers == {"Err", "NoFields", "Ok"}
ConfirmAnswers == {"Err", "Refused", "Confirmed"}

\* self.circuit_breaker.can_execute() on the breaker of payment_webhook's
\* client, which from_config has just made
WebhookBreakerPermits == from_config.state \in {"Closed", "HalfOpen"}

\* the nested ifs of the AUTHORIZED arm: can_execute(), Ok(check) with the
\* three fields, confirm_payment(..).is_ok()
AutoConfirms(check, confirm) ==
  /\ WebhookBreakerPermits
  /\ check = "Ok"
  /\ confirm # "Err"

\* step 2 of the webhook for status AUTHORIZED, with the answers of the
\* gateway kept in the request
process_webhook_authorized(w) ==
  /\ req[w].op = "webhook" /\ req[w].pc = "dispatch" /\ req[w].status = "AUTHORIZED"
  /\ \E check \in CheckAnswers, confirm \in ConfirmAnswers :
       LET confirmed == AutoConfirms(check, confirm)
           db == WebhookDispatch(CurDb, req[w].pid, req[w].booking, "AUTHORIZED", confirmed)
       IN  /\ seats' = db.seats
           /\ bookings' = db.bookings
           /\ payments' = db.payments
           /\ req' = [req EXCEPT ![w] =
                        IF confirmed
                        THEN [req[w] EXCEPT !.pc = "post",
                                            !.ret = ReservedSeatsOf(seats, req[w].booking),
                                            !.data = {<<check, confirm>>}]
                        ELSE Done(req[w], "200")]
  /\ UNCHANGED <<nextBookingId, nextPaymentId, eks, reaper, nreq, cbvars>>

InitAuth == InitFault

NextAuth ==
  \/ \E w \in HttpWorkers, status \in WebhookStatuses :
       process_webhook_lookup(w, 1, status) /\ UNCHANGED nreq
  \/ \E w \in HttpWorkers : req[w].status # "AUTHORIZED" /\ process_webhook_dispatch(w)
  \/ \E w \in HttpWorkers : process_webhook_authorized(w)
  \/ \E w \in HttpWorkers : process_webhook_post(w)
  \/ \E w \in HttpWorkers, s \in SeatIds : select_seat_check(w, w, w, s) /\ UNCHANGED nreq
  \/ \E w \in HttpWorkers : select_seat_reserve(w)
  \/ \E w \in HttpWorkers : select_seat_update(w)
  \/ \E w \in HttpWorkers : select_seat_invalidate(w)
  \/ \E w \in HttpWorkers : select_seat_rollback(w)
  \/ \E w \in HttpWorkers : respond(w)
  \/ \E s \in SeatIds : key_expires(ReservedKey(s))

SpecAuth == InitAuth /\ [][NextAuth]_vars

\* C31: on an AUTHORIZED webhook the handler of the successful payment runs
\* only when check_payment_status and confirm_payment have both completed and
\* the gateway has confirmed; in every other case payments, bookings and seats
\* stay as they are.
AuthorizedNeedsConfirmation ==
  [][\A w \in HttpWorkers :
       (/\ req[w].op = "webhook" /\ req[w].pc = "dispatch"
        /\ req[w].status = "AUTHORIZED" /\ req'[w] # req[w]) =>
         \/ /\ req'[w].pc = "post"
            /\ req'[w].data = {<<"Ok", "Confirmed">>}
         \/ /\ req'[w].pc = "done"
            /\ payments' = payments /\ bookings' = bookings /\ seats' = seats]_vars

\* ------------------------------------------------------ CleanupService
\* CleanupService::run_full_cleanup as the background task: the variable
\* reaper holds its position, the snapshot it iterates over (queue) and what
\* it has collected (ret).

\* KEYS seat:* : the pattern matches seat:{id} and seat:{id}:reserved, not
\* seats:{event_id}
SeatKeys(store) == {k \in DOMAIN store : k[1] = "seat"}

\* extract_seat_id_from_key
extract_seat_id_from_key(k) == k[2]

\* SELECT EXISTS(SELECT 1 FROM seats WHERE id = $1
\*               AND status IN ('RESERVED', 'SELECTED'))
seat_exists(st, s) == st[s].status \in {"RESERVED", "SELECTED"}

\* cleanup_orphaned_redis_reserves: KEYS seat:*
cleanup_orphaned_redis_reserves_keys ==
  /\ reaper.pc = "sleep"
  /\ SeatKeys(eks) # {}
  /\ reaper' = [pc |-> "orphan_check", queue |-> SeatKeys(eks), ret |-> {}]
  /\ UNCHANGED <<seats, bookings, nextBookingId, payments, nextPaymentId, eks, req, nreq, cbvars>>

\* the body of the for loop over the keys: the SELECT EXISTS of one key
\* (.unwrap_or(false) when the query fails); after the last key the DEL
\* follows, or the return when nothing was collected
cleanup_orphaned_redis_reserves_check ==
  /\ reaper.pc = "orphan_check"
  /\ \E k \in reaper.queue : \E failed \in BOOLEAN :
       LET exists == IF failed THEN FALSE
                     ELSE seat_exists(seats, extract_seat_id_from_key(k))
           orphaned_keys == IF exists THEN reaper.ret ELSE reaper.ret \cup {k}
           rest == reaper.queue \ {k}
       IN  reaper' = [pc |-> IF rest # {} THEN "orphan_check"
                             ELSE IF orphaned_keys = {} THEN "sleep" ELSE "orphan_del",
                      queue |-> rest,
                      ret |-> IF rest = {} /\ orphaned_keys = {} THEN {} ELSE orphaned_keys]
  /\ UNCHANGED <<seats, bookings, nextBookingId, payments, nextPaymentId, eks, req, nreq, cbvars>>

\* redis_conn.del(orphaned_keys)
cleanup_orphaned_redis_reserves_del ==
  /\ reaper.pc = "orphan_del"
  /\ eks' = Del(eks, reaper.ret)
  /\ reaper' = [pc |-> "sleep", queue |-> {}, ret |-> {}]
  /\ UNCHANGED <<seats, bookings, nextBookingId, payments, nextPaymentId, req, nreq, cbvars>>

InitOrphans == InitFault

NextOrphans ==
  \/ cleanup_orphaned_redis_reserves_keys
  \/ cleanup_orphaned_redis_reserves_check
  \/ cleanup_orphaned_redis_reserves_del
  \/ \E w \in HttpWorkers, s \in SeatIds : select_seat_check(w, w, w, s) /\ UNCHANGED nreq
  \/ \E w \in HttpWorkers : select_seat_reserve(w)
  \/ \E w \in HttpWorkers : select_seat_update(w)
  \/ \E w \in HttpWorkers : select_seat_invalidate(w)
  \/ \E w \in HttpWorkers : select_seat_rollback(w)
  \/ \E w \in HttpWorkers, status \in WebhookStatuses :
       process_webhook_lookup(w, 1, status) /\ UNCHANGED nreq
  \/ \E w \in HttpWorkers : process_webhook_dispatch(w)
  \/ \E w \in HttpWorkers : process_webhook_post(w)
  \/ \E w \in HttpWorkers : respond(w)
  \/ \E s \in SeatIds : key_expires(ReservedKey(s))

SpecOrphans == InitOrphans /\ [][NextOrphans]_vars

\* C32: the orphan cleanup collects a key seat:* for deletion exactly when
\* the seat of its id is neither RESERVED nor SOLD in the DS at the moment it
\* looks, and its DEL removes the collected keys and no other.
OrphansOnly ==
  [][/\ (reaper.pc = "orphan_check" /\ reaper' # reaper) =>
          \A k \in reaper.queue \ reaper'.queue :
            (k \in reaper'.ret) <=>
              (seats[extract_seat_id_from_key(k)].status \notin {"RESERVED", "SOLD"})
     /\ (reaper.pc = "orphan_del" /\ reaper' # reaper) =>
          (DOMAIN eks) \ (DOMAIN eks') = reaper.ret \cap DOMAIN eks]_vars

\* --------------------------------------------------- released seats
\* C33: a seat whose reservation was released is available again: a
\* select_seat of a user with a booking of their own that has passed the
\* gate on a seat no booking holds (neither RESERVED nor SOLD, booking_id
\* NULL) gets the seat.
ReleasedSeatSelectable ==
  [][\A w \in HttpWorkers :
       (/\ req[w].op = "select_seat" /\ req[w].pc = "update" /\ req'[w] # req[w]
        /\ booking_belongs_to_user(bookings, req[w].booking, req[w].user)
        /\ seats[req[w].seat].status \notin {"RESERVED", "SOLD"}
        /\ seats[req[w].seat].booking_id = NULL) =>
         /\ seats'[req[w].seat] = [status |-> "RESERVED", booking_id |-> req[w].booking]
         /\ req'[w].pc = "invalidate"]_vars

\* ------------------------------------------------ the amount of a payment
\* initiate_payment with the amount it computes: SUM(s.price) over the seats
\* RESERVED on the booking, kept here as the set of seats it adds up.

\* step 1 with the result of the SELECT kept: total_price
initiate_payment_check_amount(w, u, b) ==
  /\ req[w] = Idle
  /\ LET r == [Idle EXCEPT !.op = "initiate_payment", !.user = u, !.booking = b]
         found == /\ booking_belongs_to_user(bookings, b, u)
                  /\ ReservedSeatsOf(seats, b) # {}
     IN  req' = [req EXCEPT ![w] =
                   IF found THEN [r EXCEPT !.pc = "gateway",
                                           !.ret = ReservedSeatsOf(seats, b)]
                   ELSE Done(r, "404")]
  /\ UNCHANGED <<seats, bookings, nextBookingId, payments, nextPaymentId, eks, reaper, cbvars>>

\* INSERT INTO payment_transactions (booking_id, transaction_id, amount, status)
InitiatePaymentTxAmount(db, pid, b, total_price) ==
  LET tx == InitiatePaymentTx(db, pid, b)
  IN  Db(tx.seats, tx.bookings,
         [p \in DOMAIN tx.payments |->
            IF p = pid
            THEN [booking_id |-> b, status |-> "pending", old |-> FALSE,
                  amount |-> total_price]
            ELSE tx.payments[p]])

\* step 3 with the amount bound to the INSERT
initiate_payment_tx_amount(w) ==
  /\ req[w].op = "initiate_payment" /\ req[w].pc = "tx"
  /\ LET db == InitiatePaymentTxAmount(CurDb, req[w].pid, req[w].booking, req[w].ret)
     IN  /\ bookings' = db.bookings
         /\ payments' = db.payments
  /\ req' = [req EXCEPT ![w] = Done(req[w], "200")]
  /\ UNCHANGED <<seats, nextBookingId, nextPaymentId, eks, reaper, nreq, cbvars>>

\* user 1 has booking 1 with seat 1 RESERVED and locked; the other seats are FREE
InitAmount ==
  /\ seats = [s \in SeatIds |->
                IF s = P1Seat THEN [status |-> "RESERVED", booking_id |-> 1]
                ELSE [status |-> "FREE", booking_id |-> NULL]]
  /\ bookings = [b \in {1} |-> [user_id |-> 1, status |-> "created"]]
  /\ nextBookingId = 2
  /\ payments = <<>>
  /\ nextPaymentId = 1
  /\ eks = SetKey(<<>>, ReservedKey(P1Seat), 1)
  /\ req = [w \in Workers |-> Idle]
  /\ reaper = [pc |-> "sleep", queue |-> {}, ret |-> {}]
  /\ nreq = 0
  /\ NoBreaker

NextAmount ==
  \/ \E w \in HttpWorkers : Accepts(w) /\ initiate_payment_check_amount(w, 1, 1)
  \/ \E w \in HttpWorkers : initiate_payment_gateway(w)
  \/ \E w \in HttpWorkers : initiate_payment_tx_amount(w)
  \/ \E w \in HttpWorkers, s \in SeatIds : Accepts(w) /\ select_seat_check(w, 1, 1, s)
  \/ \E w \in HttpWorkers : select_seat_reserve(w)
  \/ \E w \in HttpWorkers : select_seat_update(w)
  \/ \E w \in HttpWorkers : select_seat_invalidate(w)
  \/ \E w \in HttpWorkers : select_seat_rollback(w)
  \/ \E w \in HttpWorkers, s \in SeatIds : Accepts(w) /\ release_seat_check(w, 1, s)
  \/ \E w \in HttpWorkers : release_seat_update(w)
  \/ \E w \in HttpWorkers : release_seat_unlock(w)
  \/ \E w \in HttpWorkers : release_seat_invalidate(w)
  \/ \E w \in HttpWorkers, pid \in PaymentIds :
       Accepts(w) /\ process_webhook_lookup(w, pid, "CONFIRMED")
  \/ \E w \in HttpWorkers : process_webhook_dispatch(w)
  \/ \E w \in HttpWorkers : process_webhook_post(w)
  \/ \E w \in HttpWorkers : respond(w)
  \/ \E s \in SeatIds : key_expires(ReservedKey(s))

SpecAmount == InitAmount /\ [][NextAmount]_vars

\* C34: when a webhook turns a booking paid, the seats it turns SOLD are the
\* seats the amount of its payment was computed over.
PaidCoversAmount ==
  [][\A w \in HttpWorkers :
       (/\ req[w].op = "webhook" /\ req[w].pc = "dispatch" /\ req'[w] # req[w]
        /\ req[w].booking \in DOMAIN bookings
        /\ bookings[req[w].booking].status # "paid"
        /\ bookings'[req[w].booking].status = "paid") =>
         {s \in SeatIds : seats[s].status # "SOLD" /\ seats'[s].status = "SOLD"}
           = payments[req[w].pid].amount]_vars

\* ------------------------------------------------ the gateway's own record
\* The gateway knows which payments the customer has paid (CONFIRMED); the
\* observer obs keeps that set.  The webhook it sends and the answer to
\* check_payment_status follow from it.

\* the customer pays on the gateway's page: the payment exists at the gateway
\* from the answer to create_payment on
gateway_confirms(p) ==
  /\ p < nextPaymentId
  /\ p \notin obs.confirmed
  /\ obs' = [obs EXCEPT !.confirmed = @ \cup {p}]
  /\ UNCHANGED <<dsvars, cb, call>>

\* what the Reaper's status check of payment p can come to: the breaker is
\* Open, the call fails, or the gateway answers with the payment's status
ReaperChecksOf(p) ==
  {"open", "error"} \cup (IF p \in obs.confirmed THEN {"CONFIRMED"} ELSE {"NEW"})

\* the body of the Reaper's loop with the gateway's answer
cleanup_expired_payments_item_checked ==
  /\ reaper.pc = "loop"
  /\ \E pid \in reaper.queue : \E check \in ReaperChecksOf(pid) :
       LET b  == payments[pid].booking_id
           db == ReaperItem(CurDb, pid, b, check)
       IN  /\ seats' = db.seats
           /\ bookings' = db.bookings
           /\ payments' = db.payments
           /\ reaper' = [pc |-> "post", queue |-> reaper.queue \ {pid},
                         ret |-> ReservedSeatsOf(seats, b)]
  /\ UNCHANGED <<nextBookingId, nextPaymentId, eks, req, nreq, cbvars>>

InitGateway ==
  /\ seats = [s \in SeatIds |->
                IF s = P1Seat THEN [status |-> "RESERVED", booking_id |-> 1]
                ELSE [status |-> "FREE", booking_id |-> NULL]]
  /\ bookings = [b \in {1} |-> [user_id |-> 1, status |-> "created"]]
  /\ nextBookingId = 2
  /\ payments = <<>>
  /\ nextPaymentId = 1
  /\ eks = SetKey(<<>>, ReservedKey(P1Seat), 1)
  /\ req = [w \in Workers |-> Idle]
  /\ reaper = [pc |-> "sleep", queue |-> {}, ret |-> {}]
  /\ nreq = 0
  /\ cb = <<>> /\ call = <<>>
  /\ obs = [confirmed |-> {}]

NextGateway ==
  \/ \E w \in HttpWorkers : Accepts(w) /\ initiate_payment_check(w, 1, 1)
  \/ \E w \in HttpWorkers : initiate_payment_gateway(w)
  \/ \E w \in HttpWorkers : initiate_payment_tx(w)
  \/ \E p \in PaymentIds : gateway_confirms(p)
  \/ \E w \in HttpWorkers, pid \in PaymentIds :
       /\ pid \in obs.confirmed
       /\ Accepts(w) /\ process_webhook_lookup(w, pid, "CONFIRMED")
  \/ \E w \in HttpWorkers : process_webhook_dispatch(w)
  \/ \E w \in HttpWorkers : process_webhook_post(w)
  \/ \E w \in HttpWorkers : respond(w)
  \/ cleanup_expired_payments_select
  \/ cleanup_expired_payments_item_checked
  \/ cleanup_expired_payments_post
  \/ \E p \in PaymentIds : payment_ages(p)
  \/ \E s \in SeatIds : key_expires(ReservedKey(s))

SpecGateway == InitGateway /\ [][NextGateway]_vars

\* C35: a payment the gateway has CONFIRMED is not resolved against the
\* customer: no step of the Reaper marks it expired, frees a seat of its
\* booking or deletes the booking.
ConfirmedNotExpired ==
  [][\A p \in obs.confirmed \cap DOMAIN payments :
       (reaper' # reaper /\ payments[p].status = "pending") =>
         LET b == payments[p].booking_id
         IN  /\ payments'[p].status # "expired"
             /\ (b \in DOMAIN bookings) => (b \in DOMAIN bookings')
             /\ \A s \in ReservedSeatsOf(seats, b) :
                  seats'[s].status \in {"RESERVED", "SOLD"}]_vars

\* ------------------------------------------------- the public webhook
\* POST /api/webhook/payment is a public route and payment_webhook reads
\* paymentId and status from the body as they come: anybody can send one.

\* a request to the webhook that the gateway did not send
forged_webhook(w, pid) ==
  /\ pid \notin obs.confirmed
  /\ Accepts(w)
  /\ process_webhook_lookup(w, pid, "CONFIRMED")

NextPublic ==
  \/ NextGateway
  \/ \E w \in HttpWorkers, pid \in PaymentIds : forged_webhook(w, pid)

SpecPublic == InitGateway /\ [][NextPublic]_vars

\* C36: a seat becomes SOLD and a booking becomes paid only when the gateway
\* has confirmed a payment of that booking.
SoldOnlyIfConfirmed ==
  [][/\ \A s \in SeatIds :
          (seats[s].status # "SOLD" /\ seats'[s].status = "SOLD") =>
            \E p \in obs.confirmed \cap DOMAIN payments :
              payments[p].booking_id = seats[s].booking_id
     /\ \A b \in DOMAIN bookings :
          (/\ bookings[b].status # "paid"
           /\ b \in DOMAIN bookings' /\ bookings'[b].status = "paid") =>
            \E p \in obs.confirmed \cap DOMAIN payments : payments[p].booking_id = b]_vars

\* ------------------------------------------------------------- events
\* Seats belong to events (seats.event_id, fixed when the seats are
\* provisioned) and a booking is created for an event.
EventIds == {1, 2}

\* seats.event_id: the first seat is of the first event, the others of the second
SeatEvent(s) == IF s = P1Seat THEN 1 ELSE 2

\* POST /api/bookings with the event of the request:
\* INSERT INTO bookings (event_id, user_id, status) VALUES ($1, $2, 'created')
create_booking_event(u, e) ==
  /\ nextBookingId <= MaxBookings
  /\ bookings' = [x \in (DOMAIN bookings) \cup {nextBookingId} |->
                    IF x = nextBookingId
                    THEN [user_id |-> u, status |-> "created", event_id |-> e]
                    ELSE bookings[x]]
  /\ nextBookingId' = nextBookingId + 1
  /\ UNCHANGED <<seats, payments, nextPaymentId, eks, req, reaper, nreq, cbvars>>

NextEvents ==
  \/ \E u \in HttpUsers, e \in EventIds : create_booking_event(u, e)
  \/ \E w \in HttpWorkers, u \in HttpUsers, b \in BookingIds, s \in SeatIds :
       Accepts(w) /\ select_seat_check(w, u, b, s)
  \/ \E w \in HttpWorkers : select_seat_reserve(w)
  \/ \E w \in HttpWorkers : select_seat_update(w)
  \/ \E w \in HttpWorkers : select_seat_invalidate(w)
  \/ \E w \in HttpWorkers : select_seat_rollback(w)
  \/ \E w \in HttpWorkers, u \in HttpUsers, s \in SeatIds :
       Accepts(w) /\ release_seat_check(w, u, s)
  \/ \E w \in HttpWorkers : release_seat_update(w)
  \/ \E w \in HttpWorkers : release_seat_unlock(w)
  \/ \E w \in HttpWorkers : release_seat_invalidate(w)
  \/ \E w \in HttpWorkers : respond(w)
  \/ \E s \in SeatIds : key_expires(ReservedKey(s))

SpecEvents == Init /\ [][NextEvents]_vars

\* C37: every seat that references a booking is a seat of the booking's event.
SeatOfBookingsEvent ==
  \A s \in SeatIds :
    (seats[s].booking_id # NULL /\ seats[s].booking_id \in DOMAIN bookings) =>
      SeatEvent(s) = bookings[seats[s].booking_id].event_id

\* ----------------------------------------------------- paid bookings
\* C38: every seat that references a paid booking is SOLD.
SeatsOfPaidAreSold ==
  \A s \in SeatIds :
    (/\ seats[s].booking_id # NULL
     /\ seats[s].booking_id \in DOMAIN bookings
     /\ bookings[seats[s].booking_id].status = "paid") =>
      seats[s].status = "SOLD"

\* ------------------------------------------------------- whose lock
\* C39: the DEL of a select_seat unwinding or of release_seat removes only a
\* lock of the caller's own hold: when the key holds the id of another user
\* (set by that user's select_seat), the step leaves it in place.
DeletesOwnLockOnly ==
  [][\A w \in HttpWorkers :
       (/\ \/ req[w].op = "select_seat" /\ req[w].pc = "rollback"
           \/ req[w].op = "release_seat" /\ req[w].pc = "unlock"
        /\ req'[w] # req[w]
        /\ ReservedKey(req[w].seat) \in DOMAIN eks
        /\ eks[ReservedKey(req[w].seat)] # req[w].user) =>
         /\ ReservedKey(req[w].seat) \in DOMAIN eks'
         /\ eks'[ReservedKey(req[w].seat)] = eks[ReservedKey(req[w].seat)]]_vars

\* ------------------------------------------- the counter at the opening
\* C40: the breaker goes from Closed to Open only in a step at which its
\* stored failure counter is at least failure_threshold.
OpensOnStoredCount ==
  [][\A k \in DOMAIN cb :
       (k \in DOMAIN cb' /\ cb[k].state = "Closed" /\ cb'[k].state = "Open") =>
         cb[k].failure_count >= cb[k].failure_threshold]_vars

====
